---------------------------- MODULE Spec2Model ----------------------------
(***************************************************************************)
(* Model of the fire-company response-time pipeline                        *)
(* (src/process_data.py driven by src/main.py).                            *)
(*                                                                         *)
(* Tables (pandas DataFrames) are sequences of rows, Python dicts are      *)
(* sequences of [k, v] entries in insertion order with unique keys.        *)
(* A (longitude, latitude) position is a grid point of Points; a ring of   *)
(* a GeoJSON polygon is the set of grid points it encloses, so that        *)
(* shapely's contains() is membership in the shell and in no hole.         *)
(***************************************************************************)
EXTENDS Integers, Sequences, FiniteSets, TLC

VARIABLES
    fire_companies,       \* table: rows [company_name, the_geom]
    alarm_boxes,          \* table: rows [alarm_box_code, point]
    incidents,            \* table: rows [alarm_box_code, incident_datetime, incident_response_seconds_qy]
    start,                \* argument start of get_response_time_per_alarm_box
    end,                  \* argument end of get_response_time_per_alarm_box
    pc,                   \* position of the program
    ret,                  \* where map_companies_to_alarm_boxes returns to
    company_to_boxes,     \* dict company name -> list of alarm box codes
    company_boundaries,   \* dict company name -> shapely MultiPolygon
    alarm_box_locations,  \* dict alarm box code -> Point, the pool of unassigned boxes
    map_i,                \* index of the company loop of map_companies_to_alarm_boxes
    box_response,         \* table returned by get_response_time_per_alarm_box
    companies_response,   \* table returned by calc_companies_response_time
    without_outliers,     \* table returned by remove_outliers_companies_response
    current_date,         \* main: the month the loop is at
    alarm_box_response,   \* main: dict month -> per-box table
    company_responses,    \* main: dict month -> per-company table
    calc_i,               \* main: index of the loop over alarm_box_response
    company_responses_by_month,  \* main: the long-form table
    saved_csv             \* main: the table written to company_responses_by_month.csv

inputVars == <<fire_companies, alarm_boxes, incidents>>
argVars   == <<start, end>>
mapVars   == <<company_to_boxes, company_boundaries, alarm_box_locations, map_i>>
outVars   == <<box_response, companies_response, without_outliers>>
mainVars  == <<current_date, alarm_box_response, company_responses, calc_i,
               company_responses_by_month, saved_csv>>
vars      == <<inputVars, argVars, pc, ret, mapVars, outVars, mainVars>>

---------------------------------------------------------------------------
(* Bounds of the model *)

MaxCompanies == 2
MaxBoxes == 2
MaxIncidents == 2
NumMonths == 2

---------------------------------------------------------------------------
(* Python dicts: insertion-ordered sequences of entries with unique keys *)

HasKey(d, key) == \E i \in 1..Len(d) : d[i].k = key

DictGet(d, key) == d[CHOOSE i \in 1..Len(d) : d[i].k = key].v

DictKeys(d) == [i \in 1..Len(d) |-> d[i].k]

\* d[key] = val: an existing key keeps its place, a new key goes last
DictSet(d, key, val) ==
    IF HasKey(d, key)
    THEN [i \in 1..Len(d) |-> IF d[i].k = key THEN [k |-> key, v |-> val] ELSE d[i]]
    ELSE Append(d, [k |-> key, v |-> val])

\* d.pop(key)
DictPop(d, key) == SelectSeq(d, LAMBDA e : e.k # key)

\* faulty variant: the found boxes stay in the pool
DictPopNone(d, keys) == d

RECURSIVE DictPopAll(_, _)
DictPopAll(d, keys) ==
    IF keys = << >> THEN d
    ELSE DictPopAll(DictPop(d, Head(keys)), Tail(keys))

SeqToSet(s) == {s[i] : i \in 1..Len(s)}

---------------------------------------------------------------------------
(* Geometry Adapter: convert_geojson_to_shapely, _get_shapely_geometry *)

\* json_polygon[0] raises IndexError on a polygon with no ring
ConvertRaises(multipolygon) ==
    \E i \in 1..Len(multipolygon) : Len(multipolygon[i]) = 0

\* MultiPolygon([Polygon(json_polygon[0], holes=json_polygon[1:]), ...])
convert_geojson_to_shapely(multipolygon) ==
    [i \in 1..Len(multipolygon) |->
        [shell |-> Head(multipolygon[i]), holes |-> Tail(multipolygon[i])]]

\* boundary.contains(point)
Contains(boundary, point) ==
    \E i \in 1..Len(boundary) :
        /\ point \in boundary[i].shell
        /\ \A h \in 1..Len(boundary[i].holes) : point \notin boundary[i].holes[h]

GeometryRaises(companies) ==
    \E i \in 1..Len(companies) : ConvertRaises(companies[i].the_geom)

RECURSIVE ShapesFrom(_, _)
ShapesFrom(companies, shapes) ==
    IF companies = << >> THEN shapes
    ELSE ShapesFrom(Tail(companies),
                    DictSet(shapes, Head(companies).company_name,
                            convert_geojson_to_shapely(Head(companies).the_geom)))

_get_shapely_geometry(companies) == ShapesFrom(companies, << >>)

---------------------------------------------------------------------------
(* Spatial Partitioner: map_companies_to_alarm_boxes *)

\* faulty variant: the keys are inserted from the last company to the first
RECURSIVE EmptyListsReversed(_, _)
EmptyListsReversed(companies, d) ==
    IF companies = << >> THEN d
    ELSE DictSet(EmptyListsReversed(Tail(companies), d),
                 Head(companies).company_name, << >>)

RECURSIVE EmptyLists(_, _)
EmptyLists(companies, d) ==
    IF companies = << >> THEN d
    ELSE EmptyLists(Tail(companies), DictSet(d, Head(companies).company_name, << >>))

RECURSIVE LocationsFrom(_, _)
LocationsFrom(boxes, d) ==
    IF boxes = << >> THEN d
    ELSE LocationsFrom(Tail(boxes), DictSet(d, Head(boxes).alarm_box_code, Head(boxes).point))

\* faulty variant: the search returns at the first contained box
FindFirstOnly(boxes, boundary) ==
    LET all == DictKeys(SelectSeq(boxes, LAMBDA e : Contains(boundary, e.v)))
    IN  IF all = << >> THEN << >> ELSE << Head(all) >>

\* the codes of the pool, in the pool's order, whose point the boundary contains
_find_alarm_boxes_in_boundary(boxes, boundary) ==
    DictKeys(SelectSeq(boxes, LAMBDA e : Contains(boundary, e.v)))

\* lines 149-155: the three dicts; the conversion of a boundary may raise
MapBuild ==
    /\ pc = "map_entry"
    /\ IF GeometryRaises(fire_companies)
       THEN /\ pc' = "map_error"
            /\ company_to_boxes' = EmptyLists(fire_companies, << >>)
            /\ UNCHANGED <<company_boundaries, alarm_box_locations, map_i>>
       ELSE /\ pc' = "map_loop"
            /\ company_to_boxes' = EmptyLists(fire_companies, << >>)
            /\ company_boundaries' = _get_shapely_geometry(fire_companies)
            /\ alarm_box_locations' = LocationsFrom(alarm_boxes, << >>)
            /\ map_i' = 1
    /\ UNCHANGED <<mainVars, inputVars, argVars, ret, outVars>>

\* faulty variant: the companies are visited last to first
MapIterateReversed ==
    /\ pc = "map_loop"
    /\ map_i <= Len(company_to_boxes)
    /\ LET company_name == company_to_boxes[Len(company_to_boxes) + 1 - map_i].k
           found == _find_alarm_boxes_in_boundary(
                        alarm_box_locations, DictGet(company_boundaries, company_name))
       IN  /\ company_to_boxes' = DictSet(company_to_boxes, company_name, found)
           /\ alarm_box_locations' = DictPopAll(alarm_box_locations, found)
    /\ map_i' = map_i + 1
    /\ UNCHANGED <<mainVars, inputVars, argVars, pc, ret, company_boundaries, outVars>>

\* faulty variant: a company that finds no box loses its key
MapIterateDropEmpty ==
    /\ pc = "map_loop"
    /\ map_i <= Len(company_to_boxes)
    /\ LET company_name == company_to_boxes[map_i].k
           found == _find_alarm_boxes_in_boundary(
                        alarm_box_locations, DictGet(company_boundaries, company_name))
       IN  /\ IF found = << >>
              THEN /\ company_to_boxes' = DictPop(company_to_boxes, company_name)
                   /\ map_i' = map_i
              ELSE /\ company_to_boxes' = DictSet(company_to_boxes, company_name, found)
                   /\ map_i' = map_i + 1
           /\ alarm_box_locations' = DictPopAll(alarm_box_locations, found)
    /\ UNCHANGED <<mainVars, inputVars, argVars, pc, ret, company_boundaries, outVars>>

\* lines 157-164: one iteration of the company loop
MapIterate ==
    /\ pc = "map_loop"
    /\ map_i <= Len(company_to_boxes)
    /\ LET company_name == company_to_boxes[map_i].k
           found == _find_alarm_boxes_in_boundary(
                        alarm_box_locations, DictGet(company_boundaries, company_name))
       IN  /\ company_to_boxes' = DictSet(company_to_boxes, company_name, found)
           /\ alarm_box_locations' = DictPopAll(alarm_box_locations, found)
    /\ map_i' = map_i + 1
    /\ UNCHANGED <<mainVars, inputVars, argVars, pc, ret, company_boundaries, outVars>>

\* line 166: return company_to_boxes
MapReturn ==
    /\ pc = "map_loop"
    /\ map_i > Len(company_to_boxes)
    /\ pc' = ret
    /\ UNCHANGED <<mainVars, inputVars, argVars, ret, mapVars, outVars>>

---------------------------------------------------------------------------
(* Temporal Windower and Per-Asset Accumulator: get_response_time_per_alarm_box *)

\* pandas.Series(data=0, index=alarm_boxes.alarm_box_code)
ZeroSeries(boxes) ==
    [i \in 1..Len(boxes) |-> [k |-> boxes[i].alarm_box_code, v |-> 0]]

\* faulty variant: the end bound is inclusive
InRangeEndInclusive(incs, s, e) ==
    SelectSeq(SelectSeq(incs, LAMBDA r : r.incident_datetime >= s),
              LAMBDA r : r.incident_datetime <= e)

\* line 35: incidents.loc[datetime >= start].loc[datetime < end]
InRange(incs, s, e) ==
    SelectSeq(SelectSeq(incs, LAMBDA r : r.incident_datetime >= s),
              LAMBDA r : r.incident_datetime < e)

\* faulty variant: the sum is assigned, not added to
RECURSIVE AccumulateLastOnly(_, _)
AccumulateLastOnly(rows, acc) ==
    IF rows = << >> THEN acc
    ELSE LET code == Head(rows).alarm_box_code
         IN  IF HasKey(acc.incident_count, code)
             THEN AccumulateLastOnly(Tail(rows),
                    [incident_count |->
                         DictSet(acc.incident_count, code,
                                 DictGet(acc.incident_count, code) + 1),
                     incident_rspns_sum |->
                         DictSet(acc.incident_rspns_sum, code,
                                 Head(rows).incident_response_seconds_qy)])
             ELSE AccumulateLastOnly(Tail(rows), acc)

\* lines 37-43: the loop over the incidents in range
RECURSIVE Accumulate(_, _)
Accumulate(rows, acc) ==
    IF rows = << >> THEN acc
    ELSE LET code == Head(rows).alarm_box_code
         IN  IF HasKey(acc.incident_count, code)
             THEN Accumulate(Tail(rows),
                    [incident_count |->
                         DictSet(acc.incident_count, code,
                                 DictGet(acc.incident_count, code) + 1),
                     incident_rspns_sum |->
                         DictSet(acc.incident_rspns_sum, code,
                                 DictGet(acc.incident_rspns_sum, code)
                                     + Head(rows).incident_response_seconds_qy)])
             ELSE Accumulate(Tail(rows), acc)

\* lines 45-47: the columns of alarm_boxes beside the values of the two series
ResponseFrame(boxes, acc) ==
    [i \in 1..Len(boxes) |->
        [alarm_box_code |-> boxes[i].alarm_box_code,
         point |-> boxes[i].point,
         incident_count |-> acc.incident_count[i].v,
         response_time_sum |-> acc.incident_rspns_sum[i].v]]

\* faulty variant: only the boxes that had an incident get a row
ResponseSeenOnly(incs, boxes, s, e) ==
    SelectSeq(
        ResponseFrame(boxes,
            Accumulate(InRange(incs, s, e),
                       [incident_count |-> ZeroSeries(boxes),
                        incident_rspns_sum |-> ZeroSeries(boxes)])),
        LAMBDA r : r.incident_count > 0)

get_response_time_per_alarm_box(incs, boxes, s, e) ==
    ResponseFrame(boxes,
        Accumulate(InRange(incs, s, e),
                   [incident_count |-> ZeroSeries(boxes),
                    incident_rspns_sum |-> ZeroSeries(boxes)]))

\* a call of get_response_time_per_alarm_box(incidents, alarm_boxes, start, end)
BoxCall ==
    /\ pc = "box_entry"
    /\ box_response' = get_response_time_per_alarm_box(incidents, alarm_boxes, start, end)
    /\ pc' = "box_done"
    /\ UNCHANGED <<mainVars, inputVars, argVars, ret, mapVars, companies_response, without_outliers>>

---------------------------------------------------------------------------
(* Jurisdiction Aggregator: calc_companies_response_time *)

RECURSIVE Gcd(_, _)
Gcd(a, b) == IF b = 0 THEN a ELSE Gcd(b, a % b)

\* the float n / d as a fraction in lowest terms; numpy gives inf for n / 0, n > 0
Ratio(n, d) ==
    IF d = 0 THEN [num |-> 1, den |-> 0]
    ELSE [num |-> n \div Gcd(n, d), den |-> d \div Gcd(n, d)]

\* the float 0.0
Zero == [num |-> 0, den |-> 1]

\* lines 122-123: alarm_box_response.loc[alarm_box_code.isin(codes)]
SegmentOf(table, codes) ==
    SelectSeq(table, LAMBDA r : r.alarm_box_code \in SeqToSet(codes))

\* company_response_segment.response_time_sum.sum()
RECURSIVE ResponseTimeSum(_)
ResponseTimeSum(segment) ==
    IF segment = << >> THEN 0
    ELSE Head(segment).response_time_sum + ResponseTimeSum(Tail(segment))

\* company_response_segment.incident_count.sum()
RECURSIVE IncidentCountSum(_)
IncidentCountSum(segment) ==
    IF segment = << >> THEN 0
    ELSE Head(segment).incident_count + IncidentCountSum(Tail(segment))

\* faulty variant: the seconds are divided by the number of boxes of the company
CompanyStatsPerBox(table, c2b) ==
    [i \in 1..Len(c2b) |->
        [k |-> c2b[i].k,
         v |-> LET segment == SegmentOf(table, c2b[i].v)
               IN  [response_times |->
                        IF ResponseTimeSum(segment) > 0
                        THEN Ratio(ResponseTimeSum(segment), Len(segment))
                        ELSE Zero,
                    incident_count |-> IncidentCountSum(segment)]]]

\* faulty variant: the division is not guarded
CompanyStatsUnguarded(table, c2b) ==
    [i \in 1..Len(c2b) |->
        [k |-> c2b[i].k,
         v |-> LET segment == SegmentOf(table, c2b[i].v)
               IN  [response_times |->
                        Ratio(ResponseTimeSum(segment), IncidentCountSum(segment)),
                    incident_count |-> IncidentCountSum(segment)]]]

\* lines 117-130: company_response_times, indexed by the keys of company_to_boxes
CompanyStats(table, c2b) ==
    [i \in 1..Len(c2b) |->
        [k |-> c2b[i].k,
         v |-> LET segment == SegmentOf(table, c2b[i].v)
               IN  [response_times |->
                        IF ResponseTimeSum(segment) > 0
                        THEN Ratio(ResponseTimeSum(segment), IncidentCountSum(segment))
                        ELSE Zero,
                    incident_count |-> IncidentCountSum(segment)]]]

\* lines 135-136: the two columns are set by position and must be as long as the table
CalcRaises(companies, c2b) == Len(c2b) # Len(companies)

\* lines 132-137: the copy of fire_companies without the_geom, with the two columns
calc_companies_response_time(companies, table, c2b) ==
    LET company_response_times == CompanyStats(table, c2b)
    IN  [i \in 1..Len(companies) |->
            [company_name |-> companies[i].company_name,
             response_times |-> company_response_times[i].v.response_times,
             incident_count |-> company_response_times[i].v.incident_count]]

\* a call of calc_companies_response_time(fire_companies, box_response, company_to_boxes)
Calc ==
    /\ pc = "calc_entry"
    /\ IF CalcRaises(fire_companies, company_to_boxes)
       THEN /\ pc' = "calc_error"
            /\ UNCHANGED companies_response
       ELSE /\ pc' = "calc_done"
            /\ companies_response' =
                  calc_companies_response_time(fire_companies, box_response, company_to_boxes)
    /\ UNCHANGED <<mainVars, inputVars, argVars, ret, mapVars, box_response, without_outliers>>

---------------------------------------------------------------------------
(* Outlier filter: remove_outliers_companies_response *)

LowerBound == 1
UpperBound == 2500

\* response_times < bound and response_times > bound, for a float held as a fraction
FloatLess(r, bound) == r.den > 0 /\ r.num < bound * r.den

\* faulty variant: 2500.0 itself counts as above the bound
FloatGreaterOrEqual(r, bound) == r.den = 0 \/ r.num >= bound * r.den

FloatGreater(r, bound) == r.den = 0 \/ r.num > bound * r.den

\* faulty variant: only the upper bound is applied
RemoveAboveOnly(table) ==
    SelectSeq(table, LAMBDA r : ~FloatGreater(r.response_times, UpperBound))

\* lines 74-80: the rows below 1.0 and the rows above 2500.0 are dropped
remove_outliers_companies_response(table) ==
    SelectSeq(SelectSeq(table, LAMBDA r : ~FloatLess(r.response_times, LowerBound)),
              LAMBDA r : ~FloatGreater(r.response_times, UpperBound))

\* a call of remove_outliers_companies_response(companies_response)
OutliersCall ==
    /\ pc = "outliers_entry"
    /\ without_outliers' = remove_outliers_companies_response(companies_response)
    /\ pc' = "outliers_done"
    /\ UNCHANGED <<mainVars, inputVars, argVars, ret, mapVars, box_response,
                   companies_response>>

---------------------------------------------------------------------------
(* Multi-Period Orchestrator: concat_company_responses and main *)

\* a datetime is a number of half months
TicksPerMonth == 2

\* main.py lines 25-26: start_date, and end_date NumMonths months later
StartDate == 2
EndDate == StartDate + NumMonths * TicksPerMonth

\* faulty variant: the date is not advanced
AddMonthNone(date) == date

\* current_date + relativedelta(months=+1)
AddMonth(date) == date + TicksPerMonth

\* f'{timestamp.year}-{timestamp.month}': the month of the datetime, without its day
MonthLabel(date) == <<"month", date \div TicksPerMonth>>

\* companies_response_by_month[date]['date'] = date
WithDate(table, date) ==
    [i \in 1..Len(table) |->
        [company_name |-> table[i].company_name,
         response_times |-> table[i].response_times,
         incident_count |-> table[i].incident_count,
         date |-> date]]

\* lines 211-214: every table of the dict gets its date column
DatedResponses(by_month) ==
    [i \in 1..Len(by_month) |->
        [k |-> by_month[i].k, v |-> WithDate(by_month[i].v, by_month[i].k)]]

\* faulty variant: the tables are concatenated from the last month to the first
RECURSIVE ConcatTablesReversed(_)
ConcatTablesReversed(by_month) ==
    IF by_month = << >> THEN << >>
    ELSE ConcatTablesReversed(Tail(by_month)) \o Head(by_month).v

RECURSIVE ConcatTables(_)
ConcatTables(by_month) ==
    IF by_month = << >> THEN << >>
    ELSE Head(by_month).v \o ConcatTables(Tail(by_month))

\* line 216: pandas.concat of the dated tables in the order of the dict
concat_company_responses(by_month) == ConcatTables(DatedResponses(by_month))

\* line 49: the date column as a year-month string
FormatDates(table) ==
    [i \in 1..Len(table) |->
        [company_name |-> table[i].company_name,
         response_times |-> table[i].response_times,
         incident_count |-> table[i].incident_count,
         date |-> MonthLabel(table[i].date)]]

\* main.py lines 33-36: one iteration of the month loop
MainMonth ==
    /\ pc = "main_months"
    /\ current_date < EndDate
    /\ LET next_month == AddMonth(current_date)
       IN  /\ alarm_box_response' =
                 DictSet(alarm_box_response, current_date,
                         get_response_time_per_alarm_box(
                             incidents, alarm_boxes, current_date, next_month))
           /\ start' = current_date
           /\ end' = next_month
           /\ current_date' = next_month
    /\ UNCHANGED <<inputVars, pc, ret, mapVars, outVars, company_responses, calc_i,
                   company_responses_by_month, saved_csv>>

\* main.py line 38: the month loop has ended, map_companies_to_alarm_boxes is called
MainCallMap ==
    /\ pc = "main_months"
    /\ ~(current_date < EndDate)
    /\ pc' = "map_entry"
    /\ UNCHANGED <<inputVars, argVars, ret, mapVars, outVars, mainVars>>

\* faulty variant: the call empties the lists of the partition it was given
MainCalcConsuming ==
    /\ pc = "main_calc"
    /\ calc_i <= Len(alarm_box_response)
    /\ company_responses' =
          DictSet(company_responses, alarm_box_response[calc_i].k,
                  calc_companies_response_time(
                      fire_companies, alarm_box_response[calc_i].v, company_to_boxes))
    /\ company_to_boxes' = EmptyLists(fire_companies, << >>)
    /\ calc_i' = calc_i + 1
    /\ pc' = pc
    /\ UNCHANGED <<inputVars, argVars, ret, company_boundaries, alarm_box_locations,
                   map_i, outVars, current_date, alarm_box_response,
                   company_responses_by_month, saved_csv>>

\* main.py lines 41-42: one iteration of the loop over the months
MainCalc ==
    /\ pc = "main_calc"
    /\ calc_i <= Len(alarm_box_response)
    /\ IF CalcRaises(fire_companies, company_to_boxes)
       THEN /\ pc' = "calc_error"
            /\ UNCHANGED <<company_responses, calc_i>>
       ELSE /\ company_responses' =
                  DictSet(company_responses, alarm_box_response[calc_i].k,
                          calc_companies_response_time(
                              fire_companies, alarm_box_response[calc_i].v,
                              company_to_boxes))
            /\ calc_i' = calc_i + 1
            /\ pc' = pc
    /\ UNCHANGED <<inputVars, argVars, ret, mapVars, outVars, current_date,
                   alarm_box_response, company_responses_by_month, saved_csv>>

\* main.py line 45: concat_company_responses; pandas.concat raises on no table
MainConcat ==
    /\ pc = "main_calc"
    /\ calc_i > Len(alarm_box_response)
    /\ IF company_responses = << >>
       THEN /\ pc' = "concat_error"
            /\ UNCHANGED <<company_responses, company_responses_by_month>>
       ELSE /\ pc' = "main_format"
            /\ company_responses' = DatedResponses(company_responses)
            /\ company_responses_by_month' = concat_company_responses(company_responses)
    /\ UNCHANGED <<inputVars, argVars, ret, mapVars, outVars, current_date,
                   alarm_box_response, calc_i, saved_csv>>

\* main.py lines 49-52: the dates become year-month strings and the table is saved
MainSave ==
    /\ pc = "main_format"
    /\ company_responses_by_month' = FormatDates(company_responses_by_month)
    /\ saved_csv' = FormatDates(company_responses_by_month)
    /\ pc' = "main_filter"
    /\ UNCHANGED <<inputVars, argVars, ret, mapVars, outVars, current_date,
                   alarm_box_response, company_responses, calc_i>>

\* main.py line 57: the outliers are removed; the result goes to the plot
MainRemoveOutliers ==
    /\ pc = "main_filter"
    /\ company_responses_by_month' =
          remove_outliers_companies_response(company_responses_by_month)
    /\ pc' = "main_done"
    /\ UNCHANGED <<inputVars, argVars, ret, mapVars, outVars, current_date,
                   alarm_box_response, company_responses, calc_i, saved_csv>>

---------------------------------------------------------------------------
(* Inputs *)

Points == 1..3

CompanyNames == {"Engine 1", "Ladder 2", "Squad 3"}

\* GeoJSON MultiPolygon coordinates: a list of polygons, each a list of rings
Geoms == {
    << << {1, 2} >> >>,            \* one polygon
    << << {2, 3} >> >>,            \* one polygon, overlapping the first
    << << {1, 2}, {2} >> >>,       \* one polygon with a hole
    << << {1} >>, << {3} >> >>,    \* two polygons
    << >>,                         \* no polygon
    << << >> >>                    \* a polygon with no ring
  }

CompanyRows == [company_name : CompanyNames, the_geom : Geoms]

\* company_name is a unique key of the fire companies table
CompanyTables ==
    UNION { {t \in [1..n -> CompanyRows] :
                \A i, j \in 1..n : i # j => t[i].company_name # t[j].company_name}
            : n \in 0..MaxCompanies }

\* company tables whose names follow the order of CompanyNameList
CompanyNameList == <<"Engine 1", "Ladder 2", "Squad 3", "Engine 4">>

CompanyTablesOver(G) ==
    UNION { {[i \in 1..n |-> [company_name |-> CompanyNameList[i], the_geom |-> g[i]]]
                : g \in [1..n -> G]}
            : n \in 0..MaxCompanies }

\* well-formed boundaries: two that overlap in point 2, and one with no polygon
CalcGeoms == { << << {1, 2} >> >>, << << {2, 3} >> >>, << >> }

BoxCode(i) == <<"B", i>>

\* alarm_box_code is unique after load_alarm_boxes drops the duplicates
BoxTablesOver(P) ==
    UNION { {[i \in 1..n |-> [alarm_box_code |-> BoxCode(i), point |-> pts[i]]]
                : pts \in [1..n -> P]}
            : n \in 0..MaxBoxes }

BoxTables == BoxTablesOver(Points)

\* the codes of the incidents: two that alarm_boxes may hold and one it never holds
IncidentCodes == {BoxCode(0), BoxCode(1), BoxCode(2)}

\* datetimes, and the datetimes a period starts or ends at
Times == 0..3
PeriodBounds == {1, 3}

\* incident_response_seconds_qy
Seconds == {0, 50}

IncidentRows ==
    [alarm_box_code : IncidentCodes, incident_datetime : Times,
     incident_response_seconds_qy : Seconds]

\* the (incident_count, response_time_sum) a box gets from at most two
\* incidents of 0 or 50 seconds
StatPairs == {
    [incident_count |-> 0, response_time_sum |-> 0],
    [incident_count |-> 1, response_time_sum |-> 0],
    [incident_count |-> 1, response_time_sum |-> 50],
    [incident_count |-> 2, response_time_sum |-> 100]
  }

\* the tables get_response_time_per_alarm_box returns for the alarm box table
ResponseTablesFor(boxes) ==
    {[i \in 1..Len(boxes) |->
        [alarm_box_code |-> boxes[i].alarm_box_code,
         point |-> boxes[i].point,
         incident_count |-> st[i].incident_count,
         response_time_sum |-> st[i].response_time_sum]]
     : st \in [1..Len(boxes) -> StatPairs]}

\* the inputs of main: boundaries around point 1 and around point 3, boxes at
\* point 1, incidents of the first box and of an unknown code, from the half
\* month before start_date to end_date
MainGeoms == { << << {1, 2} >> >>, << << {2, 3} >> >> }
MainTimes == (StartDate - 1)..EndDate
MainIncidentRows ==
    [alarm_box_code : {BoxCode(0), BoxCode(1)}, incident_datetime : MainTimes,
     incident_response_seconds_qy : {50}]

\* load_incidents sorts the incidents by incident_datetime
SortedIncidentTables ==
    UNION { {t \in [1..n -> MainIncidentRows] :
                \A i, j \in 1..n :
                    i < j => t[i].incident_datetime <= t[j].incident_datetime}
            : n \in 0..MaxIncidents }

\* incident tables in any row order
IncidentTables == UNION { [1..n -> IncidentRows] : n \in 0..MaxIncidents }

NoTable == << >>

\* main is not running
MainIdle ==
    /\ current_date = 0
    /\ alarm_box_response = << >>
    /\ company_responses = << >>
    /\ calc_i = 0
    /\ company_responses_by_month = NoTable
    /\ saved_csv = NoTable

InitMap ==
    /\ MainIdle
    /\ fire_companies \in CompanyTables
    /\ alarm_boxes \in BoxTables
    /\ incidents = NoTable
    /\ start = 0
    /\ end = 0
    /\ pc = "map_entry"
    /\ ret = "map_done"
    /\ company_to_boxes = << >>
    /\ company_boundaries = << >>
    /\ alarm_box_locations = << >>
    /\ map_i = 0
    /\ box_response = NoTable
    /\ companies_response = NoTable
    /\ without_outliers = NoTable

NextMap == MapBuild \/ MapIterate \/ MapReturn

SpecMap == InitMap /\ [][NextMap]_vars

InitBox ==
    /\ MainIdle
    /\ fire_companies = NoTable
    /\ alarm_boxes \in BoxTablesOver({1})
    /\ incidents \in IncidentTables
    /\ start \in PeriodBounds
    /\ end \in PeriodBounds
    /\ pc = "box_entry"
    /\ ret = "box_done"
    /\ company_to_boxes = << >>
    /\ company_boundaries = << >>
    /\ alarm_box_locations = << >>
    /\ map_i = 0
    /\ box_response = NoTable
    /\ companies_response = NoTable
    /\ without_outliers = NoTable

NextBox == BoxCall

\* the partition is built by map_companies_to_alarm_boxes, then one period's
\* per-box table is aggregated
InitCalc ==
    /\ MainIdle
    /\ fire_companies \in CompanyTablesOver(CalcGeoms)
    /\ alarm_boxes \in BoxTables
    /\ incidents = NoTable
    /\ start = 0
    /\ end = 0
    /\ pc = "map_entry"
    /\ ret = "calc_entry"
    /\ company_to_boxes = << >>
    /\ company_boundaries = << >>
    /\ alarm_box_locations = << >>
    /\ map_i = 0
    /\ box_response \in ResponseTablesFor(alarm_boxes)
    /\ companies_response = NoTable
    /\ without_outliers = NoTable

NextCalc == MapBuild \/ MapIterate \/ MapReturn \/ Calc

SpecCalc == InitCalc /\ [][NextCalc]_vars

SpecBox == InitBox /\ [][NextBox]_vars

\* response_times of the records given to the outlier filter: 0.0, 0.5, 1.0,
\* 50.0, 2500.0, 2500.5 and 3000.0
FilterTimes == {
    [num |-> 0, den |-> 1], [num |-> 1, den |-> 2], [num |-> 1, den |-> 1],
    [num |-> 50, den |-> 1], [num |-> 2500, den |-> 1], [num |-> 5001, den |-> 2],
    [num |-> 3000, den |-> 1]
  }

\* a record without incident has response_times 0.0
FilterStats ==
    {[response_times |-> Zero, incident_count |-> 0]}
        \cup [response_times : FilterTimes, incident_count : {1, 3}]

\* tables in the format of calc_companies_response_time
RecordTables ==
    UNION { {[i \in 1..n |->
                [company_name |-> CompanyNameList[i],
                 response_times |-> st[i].response_times,
                 incident_count |-> st[i].incident_count]]
                : st \in [1..n -> FilterStats]}
            : n \in 0..MaxCompanies }

InitOutliers ==
    /\ MainIdle
    /\ fire_companies = NoTable
    /\ alarm_boxes = NoTable
    /\ incidents = NoTable
    /\ start = 0
    /\ end = 0
    /\ pc = "outliers_entry"
    /\ ret = "outliers_done"
    /\ company_to_boxes = << >>
    /\ company_boundaries = << >>
    /\ alarm_box_locations = << >>
    /\ map_i = 0
    /\ box_response = NoTable
    /\ companies_response \in RecordTables
    /\ without_outliers = NoTable

NextOutliers == OutliersCall

SpecOutliers == InitOutliers /\ [][NextOutliers]_vars

\* main.py lines 20-32: the three tables are loaded and the month loop starts
Init ==
    /\ fire_companies \in CompanyTablesOver(MainGeoms)
    /\ alarm_boxes \in BoxTablesOver({1})
    /\ incidents \in SortedIncidentTables
    /\ start = 0
    /\ end = 0
    /\ pc = "main_months"
    /\ ret = "main_calc"
    /\ company_to_boxes = << >>
    /\ company_boundaries = << >>
    /\ alarm_box_locations = << >>
    /\ map_i = 0
    /\ box_response = NoTable
    /\ companies_response = NoTable
    /\ without_outliers = NoTable
    /\ current_date = StartDate
    /\ alarm_box_response = << >>
    /\ company_responses = << >>
    /\ calc_i = 1
    /\ company_responses_by_month = NoTable
    /\ saved_csv = NoTable

Next ==
    \/ MainMonth
    \/ MainCallMap
    \/ MapBuild
    \/ MapIterate
    \/ MapReturn
    \/ MainCalc
    \/ MainConcat
    \/ MainSave
    \/ MainRemoveOutliers

Spec == Init /\ [][Next]_vars

\* main.py lines 24-38: the month loop of main on its own, up to the call of
\* map_companies_to_alarm_boxes; the loop is sequential code, so an iteration
\* that can run does run
NextMonths == MainMonth \/ MainCallMap

SpecMonths == Init /\ [][NextMonths]_vars /\ WF_vars(NextMonths)

---------------------------------------------------------------------------
(* Properties of the spatial partition *)

\* every code an alarm box table of any size may hold, and one more
AllBoxCodes == {BoxCode(i) : i \in 1..(MaxBoxes + 2)}

\* the indices of the company rows whose boundary contains the point
Containing(point) ==
    {i \in 1..Len(fire_companies) :
        Contains(convert_geojson_to_shapely(fire_companies[i].the_geom), point)}

\* the indices of the entries of company_to_boxes whose list holds the code
ListsWith(code) ==
    {i \in 1..Len(company_to_boxes) : code \in SeqToSet(company_to_boxes[i].v)}

\* how often the code occurs in a list
Occurrences(list, code) == Cardinality({j \in 1..Len(list) : list[j] = code})

Min(S) == CHOOSE x \in S : \A y \in S : x <= y

\* C1: in every state of map_companies_to_alarm_boxes, before the loop, after
\* each iteration of the company loop and at the return, every alarm box code
\* is in the list of at most one company, and at most once in that list.
C1_AtMostOneCompany ==
    \A code \in AllBoxCodes :
        /\ Cardinality(ListsWith(code)) <= 1
        /\ \A i \in 1..Len(company_to_boxes) :
              Occurrences(company_to_boxes[i].v, code) <= 1

\* C1 witness: the loop has run its first iteration and another is to come;
\* a box lies in the boundaries of two companies and is in the first one's list
C1_Witness ==
    /\ pc = "map_loop"
    /\ map_i = 2
    /\ Len(company_to_boxes) = 2
    /\ \E b \in 1..Len(alarm_boxes) :
          /\ Cardinality(Containing(alarm_boxes[b].point)) = 2
          /\ ListsWith(alarm_boxes[b].alarm_box_code) = {1}

\* C2: when map_companies_to_alarm_boxes has returned, a code is in some
\* company's list exactly if it is the code of an input alarm box whose point
\* some company boundary contains; the call ends in an error only when the
\* conversion of a boundary raises, never because of a box outside every boundary.
C2_ListedIffContained ==
    /\ pc = "map_done" =>
          \A code \in AllBoxCodes :
              ListsWith(code) # {} <=>
                  \E b \in 1..Len(alarm_boxes) :
                      /\ alarm_boxes[b].alarm_box_code = code
                      /\ Containing(alarm_boxes[b].point) # {}
    /\ pc = "map_error" => GeometryRaises(fire_companies)

\* C2 witness: the call has returned; one box is outside every boundary and in
\* no list, another is inside a boundary and listed
C2_Witness ==
    /\ pc = "map_done"
    /\ \E b1, b2 \in 1..Len(alarm_boxes) :
          /\ Containing(alarm_boxes[b1].point) = {}
          /\ ListsWith(alarm_boxes[b1].alarm_box_code) = {}
          /\ Containing(alarm_boxes[b2].point) # {}
          /\ ListsWith(alarm_boxes[b2].alarm_box_code) # {}

\* the list the returned mapping holds for the company of row i
ListOfRow(i) == DictGet(company_to_boxes, fire_companies[i].company_name)

\* C3: when map_companies_to_alarm_boxes has returned, a box whose point two
\* or more company boundaries contain is in the list of the first of these
\* companies in the order of fire_companies, and in the list of no other.
C3_FirstCompanyWins ==
    pc = "map_done" =>
        \A b \in 1..Len(alarm_boxes) :
            LET code == alarm_boxes[b].alarm_box_code
                in_  == Containing(alarm_boxes[b].point)
            IN  Cardinality(in_) >= 2 =>
                    \A i \in 1..Len(fire_companies) :
                        code \in SeqToSet(ListOfRow(i)) <=> i = Min(in_)

\* C3 witness: returned, with a box in two boundaries listed by the first company
C3_Witness ==
    /\ pc = "map_done"
    /\ \E b \in 1..Len(alarm_boxes) :
          /\ Cardinality(Containing(alarm_boxes[b].point)) >= 2
          /\ alarm_boxes[b].alarm_box_code \in SeqToSet(ListOfRow(1))

\* the company names of the input table
InputCompanyNames == {fire_companies[i].company_name : i \in 1..Len(fire_companies)}

\* C4: from the start of the company loop to the return, the keys of
\* company_to_boxes are exactly the company names of fire_companies; a company
\* that finds no box keeps its key with an empty list.
C4_KeysAreCompanyNames ==
    pc \in {"map_loop", "map_done"} =>
        /\ SeqToSet(DictKeys(company_to_boxes)) = InputCompanyNames
        /\ Len(company_to_boxes) = Cardinality(InputCompanyNames)

\* C4 witness: returned; a company whose boundary contains a box has an empty
\* list because an earlier company took the box, and it is still a key
C4_Witness ==
    /\ pc = "map_done"
    /\ \E i \in 1..Len(fire_companies) :
          /\ HasKey(company_to_boxes, fire_companies[i].company_name)
          /\ ListOfRow(i) = << >>
          /\ \E b \in 1..Len(alarm_boxes) : i \in Containing(alarm_boxes[b].point)

---------------------------------------------------------------------------
(* Properties of get_response_time_per_alarm_box *)

\* the rows of the incident table t that lie in the window and carry the code
RowsInWindow(t, code) ==
    {i \in 1..Len(t) :
        /\ t[i].alarm_box_code = code
        /\ start <= t[i].incident_datetime
        /\ t[i].incident_datetime < end}

KnownCodes == {alarm_boxes[i].alarm_box_code : i \in 1..Len(alarm_boxes)}

RECURSIVE SumSeconds(_, _)
SumSeconds(t, rows) ==
    IF rows = {} THEN 0
    ELSE LET i == CHOOSE x \in rows : TRUE
         IN  t[i].incident_response_seconds_qy + SumSeconds(t, rows \ {i})

RECURSIVE TotalCount(_)
TotalCount(table) ==
    IF table = << >> THEN 0
    ELSE Head(table).incident_count + TotalCount(Tail(table))

RowOrders(n) == {f \in [1..n -> 1..n] : \A i, j \in 1..n : i # j => f[i] # f[j]}

Permuted(t, f) == [i \in 1..Len(t) |-> t[f[i]]]

\* C5: for start < end, the number of incidents the returned table counts is
\* the number of incidents of a known code with start <= incident_datetime < end
\* (one at exactly start counts, one at exactly end does not), and every
\* permutation of the incident rows gives the same table.
C5_WindowHalfOpen ==
    (pc = "box_done" /\ start < end) =>
        /\ TotalCount(box_response) =
              Cardinality(UNION {RowsInWindow(incidents, c) : c \in KnownCodes})
        /\ \A f \in RowOrders(Len(incidents)) :
              get_response_time_per_alarm_box(Permuted(incidents, f), alarm_boxes, start, end)
                  = box_response

\* C5 witness: the rows are not in time order; the incident at exactly end
\* comes before the one at exactly start, both of a known code, and one is counted
C5_Witness ==
    /\ pc = "box_done"
    /\ start < end
    /\ Len(incidents) = 2
    /\ incidents[1].incident_datetime = end
    /\ incidents[2].incident_datetime = start
    /\ incidents[1].alarm_box_code \in KnownCodes
    /\ incidents[2].alarm_box_code \in KnownCodes
    /\ TotalCount(box_response) = 1

\* C6: the returned table has exactly one row for every code of alarm_boxes, in
\* the order of alarm_boxes, and no row for another code; a code with no
\* incident in the window has incident_count = 0 and response_time_sum = 0.
C6_OneRowPerKnownCode ==
    pc = "box_done" =>
        /\ \A code \in IncidentCodes \cup AllBoxCodes :
              Cardinality({i \in 1..Len(box_response) :
                              box_response[i].alarm_box_code = code})
                  = IF code \in KnownCodes THEN 1 ELSE 0
        /\ Len(box_response) = Len(alarm_boxes)
        /\ \A i \in 1..Len(box_response) :
              /\ box_response[i].alarm_box_code = alarm_boxes[i].alarm_box_code
              /\ RowsInWindow(incidents, box_response[i].alarm_box_code) = {} =>
                    /\ box_response[i].incident_count = 0
                    /\ box_response[i].response_time_sum = 0

\* C6 witness: a known code without incident in the window has its zero row,
\* another known code has a counted incident, and an incident in the window
\* carries a code that is not in alarm_boxes
C6_Witness ==
    /\ pc = "box_done"
    /\ Len(box_response) = 2
    /\ box_response[1].incident_count = 0
    /\ box_response[1].response_time_sum = 0
    /\ box_response[2].incident_count = 1
    /\ \E c \in IncidentCodes \ KnownCodes : RowsInWindow(incidents, c) # {}

\* C7: every row of the returned table holds, for its code, the number of
\* incidents in the window with that code and the sum of their response
\* seconds; incidents whose code is not in alarm_boxes add to no row.
C7_CountAndSumPerCode ==
    pc = "box_done" =>
        \A i \in 1..Len(box_response) :
            LET rows == RowsInWindow(incidents, box_response[i].alarm_box_code)
            IN  /\ box_response[i].incident_count = Cardinality(rows)
                /\ box_response[i].response_time_sum = SumSeconds(incidents, rows)

\* C7 witness: two incidents of one known code in the window, counted 2 with sum 100
C7_Witness ==
    /\ pc = "box_done"
    /\ \E i \in 1..Len(box_response) :
          /\ box_response[i].incident_count = 2
          /\ box_response[i].response_time_sum = 100

---------------------------------------------------------------------------
(* Properties of calc_companies_response_time *)

\* the rows of the per-box table whose code is in the list
BoxRowsOf(list) ==
    {b \in 1..Len(box_response) : box_response[b].alarm_box_code \in SeqToSet(list)}

RECURSIVE CountOver(_)
CountOver(rows) ==
    IF rows = {} THEN 0
    ELSE LET b == CHOOSE x \in rows : TRUE
         IN  box_response[b].incident_count + CountOver(rows \ {b})

RECURSIVE SecondsOver(_)
SecondsOver(rows) ==
    IF rows = {} THEN 0
    ELSE LET b == CHOOSE x \in rows : TRUE
         IN  box_response[b].response_time_sum + SecondsOver(rows \ {b})

\* num / den = n / d, for fractions with a positive denominator
SameFraction(r, n, d) == r.den > 0 /\ r.num * d = n * r.den

---------------------------------------------------------------------------
(* Properties of the pipeline of main *)

\* no incident of the table lies in the month that starts at date
EmptyWindow(date) ==
    \A i \in 1..Len(incidents) :
        ~(date <= incidents[i].incident_datetime
            /\ incidents[i].incident_datetime < AddMonth(date))

\* C9: for a month whose window holds no incident, the per-box table has a
\* row with count 0 and sum 0 for every alarm box, the per-company table has
\* one row for every fire company, each with incident_count = 0 and
\* response_times = 0.0, and calc_companies_response_time does not raise.
C9_EmptyPeriodAllZero ==
    /\ pc # "calc_error"
    /\ \A m \in 1..Len(alarm_box_response) :
          EmptyWindow(alarm_box_response[m].k) =>
              /\ Len(alarm_box_response[m].v) = Len(alarm_boxes)
              /\ \A b \in 1..Len(alarm_boxes) :
                    /\ alarm_box_response[m].v[b].incident_count = 0
                    /\ alarm_box_response[m].v[b].response_time_sum = 0
    /\ \A m \in 1..Len(company_responses) :
          EmptyWindow(company_responses[m].k) =>
              /\ Len(company_responses[m].v) = Len(fire_companies)
              /\ \A i \in 1..Len(fire_companies) :
                    /\ company_responses[m].v[i].company_name
                          = fire_companies[i].company_name
                    /\ company_responses[m].v[i].incident_count = 0
                    /\ company_responses[m].v[i].response_times = Zero

\* C9 witness: both calls have run for a month without incident, which has its
\* zero rows for two companies, and for a month whose incident was counted
C9_Witness ==
    /\ pc = "main_calc"
    /\ Len(fire_companies) = 2
    /\ \E m, n \in 1..Len(company_responses) :
          /\ EmptyWindow(company_responses[m].k)
          /\ Len(company_responses[m].v) = 2
          /\ company_responses[m].v[1].incident_count = 0
          /\ company_responses[m].v[1].response_times = Zero
          /\ company_responses[n].v[1].incident_count > 0

ZeroIncident(row) == row.incident_count = 0 /\ row.response_times = Zero

\* C10 as stated: the outlier filter keeps every zero-incident record
\* (incident_count = 0, response_times = 0.0) of the table it is given.
C10_ZeroIncidentKept ==
    pc = "main_done" =>
        \A i \in 1..Len(saved_csv) :
            ZeroIncident(saved_csv[i]) =>
                saved_csv[i] \in SeqToSet(company_responses_by_month)

\* C10 amended: the outlier filter removes every zero-incident record through
\* its response_times < 1.0 bound, whatever the incident_count; the records it
\* keeps are exactly those with 1.0 <= response_times <= 2500.0, in order.
C10_ZeroIncidentRemoved ==
    pc = "main_done" =>
        /\ \A i \in 1..Len(company_responses_by_month) :
              ~ZeroIncident(company_responses_by_month[i])
        /\ company_responses_by_month =
              SelectSeq(saved_csv,
                        LAMBDA r : /\ r.response_times.den > 0
                                   /\ r.response_times.num >= LowerBound * r.response_times.den
                                   /\ r.response_times.num <= UpperBound * r.response_times.den)

\* C10 witness: the filter was given a zero-incident record and a record of
\* 50.0 seconds, and returned the second without the first
C10_Witness ==
    /\ pc = "main_done"
    /\ \E i, j \in 1..Len(saved_csv) :
          /\ ZeroIncident(saved_csv[i])
          /\ saved_csv[j].response_times = [num |-> 50, den |-> 1]
          /\ saved_csv[j] \in SeqToSet(company_responses_by_month)
          /\ saved_csv[i] \notin SeqToSet(company_responses_by_month)

---------------------------------------------------------------------------
(* Properties of remove_outliers_companies_response *)

\* 1.0 <= response_times <= 2500.0
InClosedRange(r) ==
    /\ r.den > 0
    /\ r.num >= r.den
    /\ r.num <= 2500 * r.den

\* the positions of the table whose record is in the closed range
KeptPositions(table) == {i \in 1..Len(table) : InClosedRange(table[i].response_times)}

\* the n-th smallest element of a set of numbers
RECURSIVE NthOf(_, _)
NthOf(S, n) == IF n = 1 THEN Min(S) ELSE NthOf(S \ {Min(S)}, n - 1)

\* C11: remove_outliers_companies_response returns exactly the records of its
\* argument whose response_times is in the closed range [1.0, 2500.0], in their
\* original relative order and with every field unchanged; a record of 3000.0
\* is removed, records of exactly 1.0 and of exactly 2500.0 are kept.
C11_ClosedRangeKept ==
    pc = "outliers_done" =>
        LET kept == KeptPositions(companies_response)
        IN  /\ Len(without_outliers) = Cardinality(kept)
            /\ \A n \in 1..Len(without_outliers) :
                  without_outliers[n] = companies_response[NthOf(kept, n)]

\* C11 witness: of the records 3000.0 and 2500.0 the filter returned the
\* second only; it also kept a record of 1.0 in another call
C11_Witness ==
    /\ pc = "outliers_done"
    /\ Len(companies_response) = 2
    /\ companies_response[1].response_times = [num |-> 3000, den |-> 1]
    /\ companies_response[2].response_times \in
          {[num |-> 2500, den |-> 1], [num |-> 1, den |-> 1]}
    /\ without_outliers = << companies_response[2] >>

---------------------------------------------------------------------------
(* Properties of the error handling *)

\* C12: a call of get_response_time_per_alarm_box with start >= end is
\* rejected: it never returns a table of per-box statistics.
C12_InvertedBoundsRejected ==
    start >= end => pc # "box_done"

\* a boundary with no polygon, or with a polygon that has no ring
Malformed(multipolygon) ==
    \/ Len(multipolygon) = 0
    \/ \E i \in 1..Len(multipolygon) : Len(multipolygon[i]) = 0

\* C13: when a fire company has a malformed boundary (no polygon, or a polygon
\* with no ring), map_companies_to_alarm_boxes ends in an error: it neither
\* enters its company loop nor returns a partition.
C13_MalformedBoundaryRejected ==
    (\E i \in 1..Len(fire_companies) : Malformed(fire_companies[i].the_geom)) =>
        pc \notin {"map_loop", "map_done"}

---------------------------------------------------------------------------
(* Properties of the calls of main *)

\* the codes of the alarm boxes whose first containing company is that of row i
FirstContained(i) ==
    {alarm_boxes[b].alarm_box_code : b \in
        {c \in 1..Len(alarm_boxes) :
            /\ Containing(alarm_boxes[c].point) # {}
            /\ Min(Containing(alarm_boxes[c].point)) = i}}

PeriodStart(p) == StartDate + (p - 1) * TicksPerMonth

\* the record of the p-th month for the company of row i, with its period label
PeriodRecord(p, i, label) ==
    [company_name |-> fire_companies[i].company_name,
     response_times |-> company_responses[p].v[i].response_times,
     incident_count |-> company_responses[p].v[i].incident_count,
     date |-> label]

\* C15: the table concat_company_responses returns in main is the tables of
\* the months one after the other, the earlier month first: it has one record
\* for every (month, company), the record of month p and company i at
\* position (p - 1) * N + i with the statistics of that month and company and
\* the start of the month as its date; the saved table is the same with the
\* date as a year-month label.
C15_ConcatInPeriodOrder ==
    LET N == Len(fire_companies)
        P == Len(company_responses)
    IN  /\ pc = "main_format" =>
              /\ Len(company_responses_by_month) = P * N
              /\ \A p \in 1..P : \A i \in 1..N :
                    company_responses_by_month[(p - 1) * N + i]
                        = PeriodRecord(p, i, PeriodStart(p))
              /\ \A r \in 1..(P * N - 1) :
                    company_responses_by_month[r].date
                        <= company_responses_by_month[r + 1].date
        /\ pc = "main_filter" =>
              /\ Len(saved_csv) = P * N
              /\ \A p \in 1..P : \A i \in 1..N :
                    saved_csv[(p - 1) * N + i]
                        = PeriodRecord(p, i, MonthLabel(PeriodStart(p)))

\* C15 witness: two months and two companies were concatenated, and a company
\* has a counted incident in the second month and none in the first
C15_Witness ==
    /\ pc = "main_format"
    /\ Len(fire_companies) = 2
    /\ Len(company_responses) = 2
    /\ Len(company_responses_by_month) = 4
    /\ company_responses_by_month[1].incident_count = 0
    /\ company_responses_by_month[3].incident_count > 0
    /\ company_responses_by_month[3].date = AddMonth(StartDate)

---------------------------------------------------------------------------
(* Properties of the positional copy of calc_companies_response_time *)

\* C16: in the table calc_companies_response_time returns, the rows are those
\* of fire_companies in their order, a row never carries the statistics of
\* another company's partition entry: the row whose company_name is the key
\* of an entry has the incident count and the average of that entry's boxes;
\* and no row has a the_geom column.
C16_RowsMatchTheirCompany ==
    pc = "calc_done" =>
        /\ [i \in 1..Len(companies_response) |-> companies_response[i].company_name]
              = [i \in 1..Len(fire_companies) |-> fire_companies[i].company_name]
        /\ \A i \in 1..Len(companies_response) :
              /\ DOMAIN companies_response[i]
                    = {"company_name", "response_times", "incident_count"}
              /\ \A j \in 1..Len(company_to_boxes) :
                    company_to_boxes[j].k = companies_response[i].company_name =>
                        LET rows == BoxRowsOf(company_to_boxes[j].v)
                        IN  /\ companies_response[i].incident_count = CountOver(rows)
                            /\ companies_response[i].response_times
                                  = IF SecondsOver(rows) > 0
                                    THEN Ratio(SecondsOver(rows), CountOver(rows))
                                    ELSE Zero
        /\ \A i \in 1..Len(fire_companies) :
              "the_geom" \in DOMAIN fire_companies[i]

\* C16 witness: two companies with a box each; the incidents are all at the
\* box of the second company, and its row, not the first, has them
C16_Witness ==
    /\ pc = "calc_done"
    /\ Len(companies_response) = 2
    /\ Len(company_to_boxes[1].v) = 1
    /\ Len(company_to_boxes[2].v) = 1
    /\ companies_response[1].incident_count = 0
    /\ companies_response[2].incident_count > 0
    /\ companies_response[2].response_times.num > 0

---------------------------------------------------------------------------
(* Properties of the month loop of main *)

\* the months generated so far whose window start <= t < end holds the time
PeriodsOf(t) ==
    {m \in 1..Len(alarm_box_response) : PeriodStart(m) <= t /\ t < PeriodStart(m + 1)}

\* the incidents the per-box tables of all the months count for the code
RECURSIVE CountedIn(_, _)
CountedIn(by_month, code) ==
    IF by_month = << >> THEN 0
    ELSE TotalCount(SelectSeq(Head(by_month).v, LAMBDA r : r.alarm_box_code = code))
            + CountedIn(Tail(by_month), code)

\* the incidents of the code with start_date <= incident_datetime < end_date
InRun(code) ==
    {n \in 1..Len(incidents) :
        /\ incidents[n].alarm_box_code = code
        /\ StartDate <= incidents[n].incident_datetime
        /\ incidents[n].incident_datetime < EndDate}

\* C17: the month loop of main ends; every iteration moves current_date
\* forward, never past end_date; the months it generates are consecutive
\* half-open windows, the first starting at start_date, each ending where the
\* next starts and the last ending at end_date; so when the loop has ended
\* every incident with start_date <= incident_datetime < end_date lies in the
\* window of exactly one month, no incident lies in two, and the months
\* together count every such incident of an alarm box of the table once.
C17_MonthsPartition ==
    /\ <>(pc # "main_months")
    /\ [][current_date' # current_date =>
            current_date < current_date' /\ current_date' <= EndDate]_vars
    /\ [](/\ \A m \in 1..Len(alarm_box_response) :
               alarm_box_response[m].k = PeriodStart(m)
          /\ current_date = PeriodStart(Len(alarm_box_response) + 1)
          /\ \A n \in 1..Len(incidents) :
               Cardinality(PeriodsOf(incidents[n].incident_datetime)) <= 1
          /\ pc # "main_months" =>
               /\ current_date = EndDate
               /\ \A n \in 1..Len(incidents) :
                     LET t == incidents[n].incident_datetime
                     IN  StartDate <= t /\ t < EndDate =>
                             Cardinality(PeriodsOf(t)) = 1
               /\ \A code \in KnownCodes :
                     CountedIn(alarm_box_response, code) = Cardinality(InRun(code)))

\* C17 witness: the loop has ended after two months; one incident at the last
\* instant of the first month and one at the first instant of the second are
\* counted in the first and in the second month
C17_Witness ==
    /\ pc = "map_entry"
    /\ Len(alarm_box_response) = 2
    /\ Len(incidents) = 2
    /\ incidents[1].alarm_box_code \in KnownCodes
    /\ incidents[2].alarm_box_code = incidents[1].alarm_box_code
    /\ incidents[1].incident_datetime = AddMonth(StartDate) - 1
    /\ incidents[2].incident_datetime = AddMonth(StartDate)
    /\ TotalCount(alarm_box_response[1].v) = 1
    /\ TotalCount(alarm_box_response[2].v) = 1

===========================================================================
